---- MODULE Spec2Model ----
(***************************************************************************)
(* The five demonstration programs of the repository (src/examples), each  *)
(* a self-contained main, modelled statement by statement together with    *)
(* the monitor that the matching diagnostic tool attaches to it:           *)
(*   tsan    - tsan_example.cpp    (data-race-demo)                        *)
(*   ubsan   - ubsan_example.cpp   (undefined-behavior-demo)               *)
(*   asan    - asan_example.cpp    (overflow-demo)                         *)
(*   msan    - msan_example.cpp    (uninitialized-read-demo)               *)
(*   semgrep - semgrep_example.cpp (static-analysis-pattern-demo)          *)
(* One behaviour runs one program; Init chooses which.                     *)
(***************************************************************************)
EXTENDS Integers, Sequences, FiniteSets, TLC

\* Iterations of the loop in increment(); stands for the 100000 of
\* tsan_example.cpp line 12.
NumIterations == 4

Programs == {"tsan", "ubsan", "asan", "msan", "semgrep"}
Threads == {"t1", "t2"}
Procs == {"main"} \cup Threads

\* How the build compiles the racy loop of increment(): one load and one
\* store per iteration, or the loop folded into a single load and a single
\* store of counter + 100000 (what an optimising build makes of it).
Builds == {"periter", "folded"}

VARIABLES
    prog,        \* the program this run executes
    pc,          \* main's position: the line of its next statement
    out,         \* the values main has streamed to std::cout, in order
    exitStatus,  \* main's return value, -1 while running
    locals,      \* main's declared locals: name -> cell or array of cells
    heap,        \* heap objects: address -> [v, live]
    trace,       \* the operations the attached checker has monitored
    build,       \* tsan: the compiled shape of the racy loop
    counter,     \* tsan: the shared global counter
    tpc,         \* tsan: each worker's position in increment()
    ti,          \* tsan: each worker's loop variable i
    reg,         \* tsan: the value each worker loaded for counter++
    vc,          \* tsan: happens-before vector clock of each thread
    lastR,       \* tsan: each thread's last read of counter [clk, line]
    lastW,       \* tsan: each thread's last write of counter [clk, line]
    races,       \* tsan: the unordered conflicting access pairs observed
    dirty,       \* tsan: the other worker stored since this worker's load
    stale,       \* tsan: some store wrote back a value from an outdated load
    fn,          \* semgrep: the routine being scanned (index into Routines)
    si,          \* semgrep: the next statement of that routine
    tainted,     \* semgrep: buffers holding unsanitised input
    ptrs,        \* semgrep: pointer name -> "null" | "live" | "freed"
    scanFindings \* semgrep: the findings reported so far

seqVars == <<locals, heap, trace>>
raceVars == <<build, counter, tpc, ti, reg, vc, lastR, lastW, races, dirty, stale>>
scanVars == <<fn, si, tainted, ptrs, scanFindings>>
vars == <<prog, pc, out, exitStatus, seqVars, raceVars, scanVars>>

Max(a, b) == IF a >= b THEN a ELSE b

\* The first statement of each main.
Entry(p) ==
    CASE p = "tsan" -> "L22"
      [] p = "ubsan" -> "L14"
      [] p = "asan" -> "L12"
      [] p = "msan" -> "L12"
      [] p = "semgrep" -> "scan"

NoAccess == [clk |-> 0, line |-> 0]

Init ==
    /\ prog \in Programs
    /\ pc = Entry(prog)
    /\ out = <<>>
    /\ exitStatus = -1
    /\ locals = <<>>
    /\ heap = <<>>
    /\ trace = <<>>
    /\ build \in (IF prog = "tsan" THEN Builds ELSE {"periter"})
    /\ counter = 0
    /\ tpc = [t \in Threads |-> "unstarted"]
    /\ ti = [t \in Threads |-> 0]
    /\ reg = [t \in Threads |-> 0]
    /\ vc = [p \in Procs |-> [q \in Procs |-> IF p = "main" /\ q = "main" THEN 1 ELSE 0]]
    /\ lastR = [p \in Procs |-> NoAccess]
    /\ lastW = [p \in Procs |-> NoAccess]
    /\ races = {}
    /\ dirty = [t \in Threads |-> FALSE]
    /\ stale = FALSE
    /\ fn = 1
    /\ si = 1
    /\ tainted = {}
    /\ ptrs = <<>>
    /\ scanFindings = {}

(***************************************************************************)
(* data-race-demo: tsan_example.cpp                                        *)
(***************************************************************************)

\* The increment one store adds: 1 per iteration, or the whole loop at once.
Stride == IF build = "folded" THEN NumIterations ELSE 1

\* An earlier access of thread q stamped clk is ordered before p's current
\* access iff p's clock has seen it (thread creation and join are the only
\* synchronisation in the program).
Ordered(p, q, acc) == acc.clk <= vc[p][q]

Access(p, line, op) == [thr |-> p, line |-> line, op |-> op]

\* The races a read of counter by p at line completes: with every earlier
\* unordered write of another thread.
RacesOfRead(p, line) ==
    { [prior |-> Access(q, lastW[q].line, "write"), cur |-> Access(p, line, "read")] :
        q \in { r \in Procs \ {p} : ~Ordered(p, r, lastW[r]) } }

\* The races a write of counter by p at line completes: with every earlier
\* unordered read or write of another thread.
RacesOfWrite(p, line) ==
    { [prior |-> Access(q, lastW[q].line, "write"), cur |-> Access(p, line, "write")] :
        q \in { r \in Procs \ {p} : ~Ordered(p, r, lastW[r]) } }
    \cup
    { [prior |-> Access(q, lastR[q].line, "read"), cur |-> Access(p, line, "write")] :
        q \in { r \in Procs \ {p} : ~Ordered(p, r, lastR[r]) } }

\* Line 22: std::cout << "Initial counter: " << counter
Main_PrintInitial ==
    /\ prog = "tsan" /\ pc = "L22"
    /\ out' = Append(out, counter)
    /\ races' = races \cup RacesOfRead("main", 22)
    /\ lastR' = [lastR EXCEPT !["main"] = [clk |-> vc["main"]["main"], line |-> 22]]
    /\ pc' = "L24"
    /\ UNCHANGED <<prog, exitStatus, seqVars, scanVars>>
    /\ UNCHANGED <<build, counter, tpc, ti, reg, vc, lastW, dirty, stale>>

SpawnLine(t) == IF t = "t1" THEN "L24" ELSE "L25"
AfterSpawn(t) == IF t = "t1" THEN "L25" ELSE "L27"
JoinLine(t) == IF t = "t1" THEN "L27" ELSE "L28"
\* t2.join() forgotten: after t1.join() main goes straight to line 30.
AfterJoin_NoSecondJoin(t) == "L30"
AfterJoin(t) == IF t = "t1" THEN "L28" ELSE "L30"

\* The threads run one after the other (t1.join() moved up, before t2 is
\* created): a thread starts only once the others have returned, ordered
\* after all they did.
Main_Spawn_Serial(t) ==
    /\ prog = "tsan" /\ pc = SpawnLine(t)
    /\ tpc[t] = "unstarted"
    /\ \A u \in Threads \ {t} : tpc[u] \in {"unstarted", "exited"}
    /\ tpc' = [tpc EXCEPT ![t] = "loop"]
    /\ ti' = [ti EXCEPT ![t] = 0]
    /\ vc' = [vc EXCEPT ![t] = [q \in Procs |->
                                  IF q = t THEN 1
                                  ELSE IF q = "main" THEN vc["main"][q]
                                  ELSE Max(vc["main"][q], vc[q][q])],
                        !["main"]["main"] = @ + 1]
    /\ pc' = AfterSpawn(t)
    /\ UNCHANGED <<prog, out, exitStatus, seqVars, scanVars>>
    /\ UNCHANGED <<build, counter, reg, lastR, lastW, races, dirty, stale>>

\* Lines 24, 25: std::thread t(increment). The new thread starts with all
\* main has done before it; main moves on without waiting.
Main_Spawn(t) ==
    /\ prog = "tsan" /\ pc = SpawnLine(t)
    /\ tpc[t] = "unstarted"
    /\ tpc' = [tpc EXCEPT ![t] = "loop"]
    /\ ti' = [ti EXCEPT ![t] = 0]
    /\ vc' = [vc EXCEPT ![t] = [q \in Procs |-> IF q = t THEN 1 ELSE vc["main"][q]],
                        !["main"]["main"] = @ + 1]
    /\ pc' = AfterSpawn(t)
    /\ UNCHANGED <<prog, out, exitStatus, seqVars, scanVars>>
    /\ UNCHANGED <<build, counter, reg, lastR, lastW, races, dirty, stale>>

\* The loop test written i < 1: a single iteration.
T_LoopTest_Once(t) ==
    /\ prog = "tsan" /\ tpc[t] = "loop"
    /\ tpc' = [tpc EXCEPT ![t] = IF ti[t] < 1 THEN "load" ELSE "exited"]
    /\ UNCHANGED <<prog, pc, out, exitStatus, seqVars, scanVars>>
    /\ UNCHANGED <<build, counter, ti, reg, vc, lastR, lastW, races, dirty, stale>>

\* The loop test written i <= 100000: one iteration too many.
T_LoopTest_OffByOne(t) ==
    /\ prog = "tsan" /\ tpc[t] = "loop"
    /\ tpc' = [tpc EXCEPT ![t] = IF ti[t] <= NumIterations THEN "load" ELSE "exited"]
    /\ UNCHANGED <<prog, pc, out, exitStatus, seqVars, scanVars>>
    /\ UNCHANGED <<build, counter, ti, reg, vc, lastR, lastW, races, dirty, stale>>

\* Line 12: the loop test i < 100000.
T_LoopTest(t) ==
    /\ prog = "tsan" /\ tpc[t] = "loop"
    /\ tpc' = [tpc EXCEPT ![t] = IF ti[t] < NumIterations THEN "load" ELSE "exited"]
    /\ UNCHANGED <<prog, pc, out, exitStatus, seqVars, scanVars>>
    /\ UNCHANGED <<build, counter, ti, reg, vc, lastR, lastW, races, dirty, stale>>

\* Line 13, first half of counter++: load counter.
T_Read(t) ==
    /\ prog = "tsan" /\ tpc[t] = "load"
    /\ reg' = [reg EXCEPT ![t] = counter]
    /\ races' = races \cup RacesOfRead(t, 13)
    /\ lastR' = [lastR EXCEPT ![t] = [clk |-> vc[t][t], line |-> 13]]
    /\ dirty' = [dirty EXCEPT ![t] = FALSE]
    /\ tpc' = [tpc EXCEPT ![t] = "store"]
    /\ UNCHANGED <<prog, pc, out, exitStatus, seqVars, scanVars>>
    /\ UNCHANGED <<build, counter, ti, vc, lastW, stale>>

\* counter++ as one indivisible fetch-and-add on a plain int: the store adds
\* to the value counter holds now, not to the value loaded.
T_Write_FetchAdd(t) ==
    /\ prog = "tsan" /\ tpc[t] = "store"
    /\ counter' = counter + Stride
    /\ races' = races \cup RacesOfWrite(t, 13)
    /\ lastW' = [lastW EXCEPT ![t] = [clk |-> vc[t][t], line |-> 13]]
    /\ stale' = (stale \/ dirty[t])
    /\ dirty' = [u \in Threads |-> IF u = t THEN dirty[u] ELSE TRUE]
    /\ ti' = [ti EXCEPT ![t] = @ + Stride]
    /\ tpc' = [tpc EXCEPT ![t] = "loop"]
    /\ UNCHANGED <<prog, pc, out, exitStatus, seqVars, scanVars>>
    /\ UNCHANGED <<build, reg, vc, lastR>>

\* Line 13, second half of counter++: store the loaded value plus one, then
\* line 12's ++i.
T_Write(t) ==
    /\ prog = "tsan" /\ tpc[t] = "store"
    /\ counter' = reg[t] + Stride
    /\ races' = races \cup RacesOfWrite(t, 13)
    /\ lastW' = [lastW EXCEPT ![t] = [clk |-> vc[t][t], line |-> 13]]
    /\ stale' = (stale \/ dirty[t])
    /\ dirty' = [u \in Threads |-> IF u = t THEN dirty[u] ELSE TRUE]
    /\ ti' = [ti EXCEPT ![t] = @ + Stride]
    /\ tpc' = [tpc EXCEPT ![t] = "loop"]
    /\ UNCHANGED <<prog, pc, out, exitStatus, seqVars, scanVars>>
    /\ UNCHANGED <<build, reg, vc, lastR>>

\* t.detach() in place of t.join(): main neither waits for the thread nor is
\* ordered after it.
Main_Join_Detach(t) ==
    /\ prog = "tsan" /\ pc = JoinLine(t)
    /\ pc' = AfterJoin(t)
    /\ UNCHANGED <<prog, out, exitStatus, seqVars, scanVars, raceVars>>

\* Lines 27, 28: t.join() blocks until increment() has returned; all the
\* thread did is then ordered before what main does next.
Main_Join(t) ==
    /\ prog = "tsan" /\ pc = JoinLine(t)
    /\ tpc[t] = "exited"
    /\ tpc' = [tpc EXCEPT ![t] = "joined"]
    /\ vc' = [vc EXCEPT !["main"] = [q \in Procs |-> Max(vc["main"][q], vc[t][q])]]
    /\ pc' = AfterJoin(t)
    /\ UNCHANGED <<prog, out, exitStatus, seqVars, scanVars>>
    /\ UNCHANGED <<build, counter, ti, reg, lastR, lastW, races, dirty, stale>>

\* Line 30: std::cout << "Final counter: " << counter
Main_PrintFinal ==
    /\ prog = "tsan" /\ pc = "L30"
    /\ out' = Append(out, counter)
    /\ races' = races \cup RacesOfRead("main", 30)
    /\ lastR' = [lastR EXCEPT !["main"] = [clk |-> vc["main"]["main"], line |-> 30]]
    /\ pc' = "L34"
    /\ UNCHANGED <<prog, exitStatus, seqVars, scanVars>>
    /\ UNCHANGED <<build, counter, tpc, ti, reg, vc, lastW, dirty, stale>>

\* Line 34: return 0
Main_Return ==
    /\ prog = "tsan" /\ pc = "L34"
    /\ exitStatus' = 0
    /\ pc' = "done"
    /\ UNCHANGED <<prog, out, seqVars, raceVars, scanVars>>

(***************************************************************************)
(* Memory and the run-time checkers of the three sequential demos          *)
(***************************************************************************)

\* climits INT_MAX and INT_MIN of a 32-bit int.
IntMax == 2147483647
IntMin == -IntMax - 1
IntBits == 32

\* TLC's integers are themselves 32 bits wide, so the wrapped results are
\* computed without ever leaving the int range.
\* v + 1 in 32-bit two's complement.
Inc32(v) == IF v = IntMax THEN IntMin ELSE v + 1

\* 2 * v in 32-bit two's complement.
Double32(v) ==
    LET half == 2 ^ (IntBits - 2)
    IN IF v >= half THEN 2 * (v - half) + IntMin
       ELSE IF v < -half THEN (2 * (v + half) + IntMax) + 1
       ELSE 2 * v

\* v << n in 32-bit two's complement, for 0 <= n.
RECURSIVE Shl32(_, _)
Shl32(v, n) == IF n = 0 THEN v ELSE Shl32(Double32(v), n - 1)

\* What an indeterminate int may turn out to be: a sample of the int range.
Indeterminate == {IntMin, -1, 0, 1, IntMax}

\* An initialised cell, and a cell declared without initialiser.
Cell(v) == [init |-> TRUE, v |-> v]
Uninit == [init |-> FALSE, v |-> 0]

\* The values a read of a cell can yield.
ReadValues(c) == IF c.init THEN {c.v} ELSE Indeterminate

\* T a[len] = {values...}: aggregate initialisation. The elements without an
\* initialiser are value-initialised, that is, zero.
AggregateInit(len, values) ==
    [len |-> len,
     cells |-> [i \in 0..(len - 1) |-> IF i < Len(values) THEN Cell(values[i + 1]) ELSE Cell(0)]]

\* T a[len]; with no initialiser: every element indeterminate.
DefaultInit(len) == [len |-> len, cells |-> [i \in 0..(len - 1) |-> Uninit]]

InBounds(a, idx) == 0 <= idx /\ idx < a.len

\* The values a read of a[idx] can yield: the element, or for an index
\* outside the array whatever lies there (what an earlier out-of-bounds store
\* put there, or anything else).
ElementValues(a, idx) ==
    IF InBounds(a, idx) THEN ReadValues(a.cells[idx])
    ELSE IF idx \in DOMAIN a.cells THEN {a.cells[idx].v} \cup Indeterminate
    ELSE Indeterminate

\* a[idx] = v: the store lands at idx whether or not idx is inside the array.
StoreElement(a, idx, v) == [a EXCEPT !.cells = (idx :> Cell(v)) @@ a.cells]

\* A declaration adds the local to main's frame.
Declare(name, val) == (name :> val) @@ locals

\* One monitored operation and what the checker found in it.
Op(line, op, obj, idx, finding) ==
    [line |-> line, op |-> op, obj |-> obj, idx |-> idx, finding |-> finding]

\* The memory-bounds checker: an access outside the array, a use of a freed
\* heap object.
BoundsFinding(a, idx) == IF InBounds(a, idx) THEN "none" ELSE "stack-buffer-overflow"
HeapFinding(addr) == IF heap[addr].live THEN "none" ELSE "heap-use-after-free"

\* The value-origin checker: a use of a cell never written or initialised.
OriginFinding(c) == IF c.init THEN "none" ELSE "use-of-uninitialized-value"

\* The undefined-behaviour checker.
OverflowFinding(v) == IF v >= IntMax THEN "signed-integer-overflow" ELSE "none"
ShiftFinding(amount) == IF amount < 0 \/ amount >= IntBits THEN "shift-exponent" ELSE "none"
IndexFinding(a, idx) == IF InBounds(a, idx) THEN "none" ELSE "index-out-of-bounds"
DivFinding(d) == IF d = 0 THEN "division-by-zero" ELSE "none"

IsFinding(e) == e.finding # "none"
\* The operations the checker reported, in order.
Findings == SelectSeq(trace, IsFinding)

(***************************************************************************)
(* undefined-behavior-demo: ubsan_example.cpp                              *)
(***************************************************************************)

\* Lines 14-15: int x = INT_MAX; and x printed.
UB_DeclX ==
    /\ prog = "ubsan" /\ pc = "L14"
    /\ locals' = Declare("x", Cell(IntMax))
    /\ out' = Append(out, IntMax)
    /\ pc' = "L16"
    /\ UNCHANGED <<prog, exitStatus, heap, trace, raceVars, scanVars>>

\* Lines 16-17: x++; and x printed. Past INT_MAX the result is whatever the
\* build makes of it (the wrapped value included).
UB_IncX ==
    /\ prog = "ubsan" /\ pc = "L16"
    /\ LET v == locals["x"].v
           f == OverflowFinding(v)
       IN /\ trace' = Append(trace, Op(16, "inc", "x", 0, f))
          /\ \E r \in (IF f = "none" THEN {v + 1} ELSE {Inc32(v)} \cup Indeterminate) :
                /\ locals' = [locals EXCEPT !["x"] = Cell(r)]
                /\ out' = Append(out, r)
    /\ pc' = "L21"
    /\ UNCHANGED <<prog, exitStatus, heap, raceVars, scanVars>>

\* Line 24 uncommented: int result = a / b;
UB_DeclAB_Divide ==
    /\ prog = "ubsan" /\ pc = "L21"
    /\ locals' = ("a" :> Cell(10)) @@ ("b" :> Cell(0)) @@ ("result" :> Cell(0)) @@ locals
    /\ trace' = Append(trace, Op(24, "div", "a", 0, DivFinding(0)))
    /\ pc' = "L30"
    /\ UNCHANGED <<prog, out, exitStatus, heap, raceVars, scanVars>>

\* Lines 21-22: int a = 10; int b = 0;. The division of line 24 is a comment.
UB_DeclAB ==
    /\ prog = "ubsan" /\ pc = "L21"
    /\ locals' = ("a" :> Cell(10)) @@ ("b" :> Cell(0)) @@ locals
    /\ pc' = "L30"
    /\ UNCHANGED <<prog, out, exitStatus, heap, trace, raceVars, scanVars>>

\* Lines 30-31: int value = 1; int shift = 100;
UB_DeclShift ==
    /\ prog = "ubsan" /\ pc = "L30"
    /\ locals' = ("value" :> Cell(1)) @@ ("shift" :> Cell(100)) @@ locals
    /\ pc' = "L32"
    /\ UNCHANGED <<prog, out, exitStatus, heap, trace, raceVars, scanVars>>

\* Lines 32-33: int shifted = value << shift; and shifted printed. With a
\* shift amount outside 0..31 the result is 0, or the value shifted by the
\* amount's low five bits, depending on the build.
UB_Shl ==
    /\ prog = "ubsan" /\ pc = "L32"
    /\ LET v == locals["value"].v
           n == locals["shift"].v
           f == ShiftFinding(n)
       IN /\ trace' = Append(trace, Op(32, "shl", "value", n, f))
          /\ \E r \in (IF f = "none" THEN {Shl32(v, n)}
                       ELSE {0, Shl32(v, n % IntBits)}) :
                /\ locals' = Declare("shifted", Cell(r))
                /\ out' = Append(out, r)
    /\ pc' = "L37"
    /\ UNCHANGED <<prog, exitStatus, heap, raceVars, scanVars>>

\* Lines 37-38: int arr[5] = {1, 2, 3, 4, 5}; int index = 10;
UB_DeclArr ==
    /\ prog = "ubsan" /\ pc = "L37"
    /\ locals' = ("arr" :> AggregateInit(5, <<1, 2, 3, 4, 5>>)) @@ ("index" :> Cell(10)) @@ locals
    /\ pc' = "L39"
    /\ UNCHANGED <<prog, out, exitStatus, heap, trace, raceVars, scanVars>>

\* Lines 39-40: int val = arr[index]; and val printed.
UB_Index ==
    /\ prog = "ubsan" /\ pc = "L39"
    /\ LET a == locals["arr"]
           i == locals["index"].v
       IN /\ trace' = Append(trace, Op(39, "index", "arr", i, IndexFinding(a, i)))
          /\ \E r \in ElementValues(a, i) :
                /\ locals' = Declare("val", Cell(r))
                /\ out' = Append(out, r)
    /\ pc' = "L44"
    /\ UNCHANGED <<prog, exitStatus, heap, raceVars, scanVars>>

\* Line 44: int* ptr = nullptr;. The store of line 46 is a comment.
UB_DeclPtr ==
    /\ prog = "ubsan" /\ pc = "L44"
    /\ locals' = Declare("ptr", Cell(0))
    /\ pc' = "L49"
    /\ UNCHANGED <<prog, out, exitStatus, heap, trace, raceVars, scanVars>>

\* Line 49: return 0;
UB_Return ==
    /\ prog = "ubsan" /\ pc = "L49"
    /\ exitStatus' = 0
    /\ pc' = "done"
    /\ UNCHANGED <<prog, out, seqVars, raceVars, scanVars>>

UBStep ==
    \/ UB_DeclX
    \/ UB_IncX
    \/ UB_DeclAB
    \/ UB_DeclShift
    \/ UB_Shl
    \/ UB_DeclArr
    \/ UB_Index
    \/ UB_DeclPtr
    \/ UB_Return

(***************************************************************************)
(* overflow-demo: asan_example.cpp                                         *)
(***************************************************************************)

\* The address operator new hands out: the next unused one.
FreshAddr == Len(heap) + 1

\* Line 12: int arr[5] = {1, 2, 3, 4, 5};
AS_DeclArr ==
    /\ prog = "asan" /\ pc = "L12"
    /\ locals' = Declare("arr", AggregateInit(5, <<1, 2, 3, 4, 5>>))
    /\ pc' = "L15"
    /\ UNCHANGED <<prog, out, exitStatus, heap, trace, raceVars, scanVars>>

\* Line 15: arr[10] = 99;
AS_StoreArr ==
    /\ prog = "asan" /\ pc = "L15"
    /\ trace' = Append(trace, Op(15, "write", "arr", 10, BoundsFinding(locals["arr"], 10)))
    /\ locals' = [locals EXCEPT !["arr"] = StoreElement(@, 10, 99)]
    /\ pc' = "L17"
    /\ UNCHANGED <<prog, out, exitStatus, heap, raceVars, scanVars>>

\* Line 17: arr[10] read and printed.
AS_LoadArr ==
    /\ prog = "asan" /\ pc = "L17"
    /\ trace' = Append(trace, Op(17, "read", "arr", 10, BoundsFinding(locals["arr"], 10)))
    /\ \E r \in ElementValues(locals["arr"], 10) : out' = Append(out, r)
    /\ pc' = "L21"
    /\ UNCHANGED <<prog, exitStatus, locals, heap, raceVars, scanVars>>

\* Line 21: int* ptr = new int(42);
AS_New ==
    /\ prog = "asan" /\ pc = "L21"
    /\ heap' = Append(heap, [v |-> 42, live |-> TRUE])
    /\ locals' = Declare("ptr", Cell(FreshAddr))
    /\ pc' = "L22"
    /\ UNCHANGED <<prog, out, exitStatus, trace, raceVars, scanVars>>

\* The values a read of *p can yield: the object's while it is live,
\* afterwards whatever the allocator left there.
DerefValues(addr) ==
    IF heap[addr].live THEN {heap[addr].v} ELSE {heap[addr].v} \cup Indeterminate

\* Lines 22 and 24: *ptr read and printed.
AS_Deref(line, next) ==
    /\ prog = "asan" /\ pc = line
    /\ LET addr == locals["ptr"].v
       IN /\ trace' = Append(trace, Op(IF line = "L22" THEN 22 ELSE 24, "read", "ptr", addr, HeapFinding(addr)))
          /\ \E r \in DerefValues(addr) : out' = Append(out, r)
    /\ pc' = next
    /\ UNCHANGED <<prog, exitStatus, locals, heap, raceVars, scanVars>>

AS_DerefLive == AS_Deref("L22", "L23")

\* delete ptr left out.
AS_Delete_Missing ==
    /\ prog = "asan" /\ pc = "L23"
    /\ pc' = "L24"
    /\ UNCHANGED <<prog, out, exitStatus, seqVars, raceVars, scanVars>>

\* Line 23: delete ptr; the pointer keeps the address.
AS_Delete ==
    /\ prog = "asan" /\ pc = "L23"
    /\ heap' = [heap EXCEPT ![locals["ptr"].v].live = FALSE]
    /\ pc' = "L24"
    /\ UNCHANGED <<prog, out, exitStatus, locals, trace, raceVars, scanVars>>

AS_DerefFreed == AS_Deref("L24", "L26")

\* Line 26: return 0;. A store past the array may have hit the frame's
\* canary, and the epilogue then aborts (SIGABRT) instead of returning.
AS_Return ==
    /\ prog = "asan" /\ pc = "L26"
    /\ exitStatus' \in (IF \E i \in DOMAIN locals["arr"].cells : ~InBounds(locals["arr"], i)
                        THEN {0, 128 + 6} ELSE {0})
    /\ pc' = "done"
    /\ UNCHANGED <<prog, out, seqVars, raceVars, scanVars>>

ASStep ==
    \/ AS_DeclArr
    \/ AS_StoreArr
    \/ AS_LoadArr
    \/ AS_New
    \/ AS_DerefLive
    \/ AS_Delete
    \/ AS_DerefFreed
    \/ AS_Return

(***************************************************************************)
(* uninitialized-read-demo: msan_example.cpp                               *)
(***************************************************************************)

\* Line 12: int x;
MS_DeclX ==
    /\ prog = "msan" /\ pc = "L12"
    /\ locals' = Declare("x", Uninit)
    /\ pc' = "L15"
    /\ UNCHANGED <<prog, out, exitStatus, heap, trace, raceVars, scanVars>>

\* Line 15: if (x > 0)
MS_TestX ==
    /\ prog = "msan" /\ pc = "L15"
    /\ trace' = Append(trace, Op(15, "read", "x", 0, OriginFinding(locals["x"])))
    /\ \E r \in ReadValues(locals["x"]) : pc' = IF r > 0 THEN "L16" ELSE "L18"
    /\ UNCHANGED <<prog, out, exitStatus, locals, heap, raceVars, scanVars>>

\* Lines 16 and 18: x printed, in the branch taken.
MS_PrintX ==
    /\ prog = "msan" /\ pc \in {"L16", "L18"}
    /\ trace' = Append(trace, Op(IF pc = "L16" THEN 16 ELSE 18, "read", "x", 0, OriginFinding(locals["x"])))
    /\ \E r \in ReadValues(locals["x"]) : out' = Append(out, r)
    /\ pc' = "L22"
    /\ UNCHANGED <<prog, exitStatus, locals, heap, raceVars, scanVars>>

\* Line 22: int arr[5];
MS_DeclArr ==
    /\ prog = "msan" /\ pc = "L22"
    /\ locals' = Declare("arr", DefaultInit(5))
    /\ pc' = "L24"
    /\ UNCHANGED <<prog, out, exitStatus, heap, trace, raceVars, scanVars>>

\* An element of a local array read and printed.
MS_PrintElement(at, line, name, idx, next) ==
    /\ prog = "msan" /\ pc = at
    /\ trace' = Append(trace, Op(line, "read", name, idx, OriginFinding(locals[name].cells[idx])))
    /\ \E r \in ElementValues(locals[name], idx) : out' = Append(out, r)
    /\ pc' = next
    /\ UNCHANGED <<prog, exitStatus, locals, heap, raceVars, scanVars>>

\* Line 24: arr[0] printed.
MS_PrintArr0 == MS_PrintElement("L24", 24, "arr", 0, "L27")

\* Line 27: int arr2[5] = {1, 2};
MS_DeclArr2 ==
    /\ prog = "msan" /\ pc = "L27"
    /\ locals' = Declare("arr2", AggregateInit(5, <<1, 2>>))
    /\ pc' = "L29"
    /\ UNCHANGED <<prog, out, exitStatus, heap, trace, raceVars, scanVars>>

\* Line 29: arr2[0] printed.
MS_PrintArr2_0 == MS_PrintElement("L29", 29, "arr2", 0, "L30")

\* Line 30: arr2[2] printed.
MS_PrintArr2_2 == MS_PrintElement("L30", 30, "arr2", 2, "L32")

\* Line 32: return 0;
MS_Return ==
    /\ prog = "msan" /\ pc = "L32"
    /\ exitStatus' = 0
    /\ pc' = "done"
    /\ UNCHANGED <<prog, out, seqVars, raceVars, scanVars>>

MSStep ==
    \/ MS_DeclX
    \/ MS_TestX
    \/ MS_PrintX
    \/ MS_DeclArr
    \/ MS_PrintArr0
    \/ MS_DeclArr2
    \/ MS_PrintArr2_0
    \/ MS_PrintArr2_2
    \/ MS_Return

(***************************************************************************)
(* static-analysis-pattern-demo: semgrep_example.cpp, and a pattern        *)
(* scanner walking its ten routines statement by statement                 *)
(***************************************************************************)

\* One statement of a routine. op "comment" is a statement that is present
\* only inside a comment: the scanner sees no operation in it.
Stmt(line, op, dst, src, fmt, guard) ==
    [line |-> line, op |-> op, dst |-> dst, src |-> src, fmt |-> fmt, guard |-> guard]

\* Lines 11-19.
semgrep_command_injection ==
    << Stmt(12, "decl", "user_input", "", "", ""),
       Stmt(13, "input", "user_input", "", "", ""),
       Stmt(16, "decl", "cmd", "", "", ""),
       Stmt(17, "sprintf", "cmd", "user_input", "shell", ""),
       Stmt(18, "system", "", "cmd", "", "") >>

\* Lines 22-30.
semgrep_buffer_overflow ==
    << Stmt(23, "decl", "buffer", "", "", ""),
       Stmt(24, "decl", "input", "", "", ""),
       Stmt(25, "input", "input", "", "", ""),
       Stmt(28, "strcpy", "buffer", "input", "", ""),
       Stmt(29, "print", "", "buffer", "", "") >>

\* Lines 33-42; gets(buffer) of line 41 is commented out.
semgrep_dangerous_function ==
    << Stmt(34, "decl", "buffer", "", "", ""),
       Stmt(35, "literal", "input", "some string", "", ""),
       Stmt(38, "strcpy", "buffer", "input", "", ""),
       Stmt(41, "comment", "", "", "", "") >>

\* Lines 45-51.
semgrep_hardcoded_secret ==
    << Stmt(47, "literal", "api_key", "sk-1234567890abcdef", "", ""),
       Stmt(48, "literal", "password", "admin123", "", ""),
       Stmt(50, "print", "", "api_key", "", "") >>

\* Lines 54-62; execute_query(query) of line 61 is commented out.
semgrep_sql_injection ==
    << Stmt(55, "decl", "user_input", "", "", ""),
       Stmt(56, "input", "user_input", "", "", ""),
       Stmt(59, "decl", "query", "", "", ""),
       Stmt(60, "sprintf", "query", "user_input", "sql", ""),
       Stmt(61, "comment", "", "", "", "") >>

\* Lines 65-69: the body holds prose comments only.
semgrep_weak_crypto == << >>

\* Lines 74-77.
semgrep_race_condition ==
    << Stmt(76, "incr_global", "global_counter", "", "", "") >>

\* Lines 80-90: the store of line 85 is inside if (ptr != nullptr); the
\* unguarded store of line 89 is commented out.
semgrep_null_pointer ==
    << Stmt(81, "ptr_null", "ptr", "", "", ""),
       Stmt(85, "deref", "ptr", "", "", "ptr"),
       Stmt(89, "comment", "", "", "", "") >>

\* Line 96 uncommented: the array is released.
semgrep_memory_leak_released ==
    << Stmt(94, "new", "ptr", "", "", ""),
       Stmt(96, "delete", "", "ptr", "", "") >>

\* Lines 93-97; delete[] ptr of line 96 is commented out.
semgrep_memory_leak ==
    << Stmt(94, "new", "ptr", "", "", ""),
       Stmt(96, "comment", "", "", "", "") >>

\* Lines 100-104; the store *ptr = 100 of line 103 is commented out.
semgrep_use_after_free ==
    << Stmt(101, "new", "ptr", "", "", ""),
       Stmt(102, "delete", "", "ptr", "", ""),
       Stmt(103, "comment", "", "", "", "") >>

Routine(name, pattern, body) == [name |-> name, pattern |-> pattern, body |-> body]

\* The ten routines in file order, each with the anti-pattern its header
\* comment names it for.
Routines ==
    << Routine("semgrep_command_injection", "command-injection", semgrep_command_injection),
       Routine("semgrep_buffer_overflow", "buffer-overflow", semgrep_buffer_overflow),
       Routine("semgrep_dangerous_function", "dangerous-function", semgrep_dangerous_function),
       Routine("semgrep_hardcoded_secret", "hardcoded-secret", semgrep_hardcoded_secret),
       Routine("semgrep_sql_injection", "sql-injection", semgrep_sql_injection),
       Routine("semgrep_weak_crypto", "weak-crypto", semgrep_weak_crypto),
       Routine("semgrep_race_condition", "race-condition", semgrep_race_condition),
       Routine("semgrep_null_pointer", "null-pointer-dereference", semgrep_null_pointer),
       Routine("semgrep_memory_leak", "memory-leak", semgrep_memory_leak),
       Routine("semgrep_use_after_free", "use-after-free", semgrep_use_after_free) >>

SecretNames == {"api_key", "password"}
PtrState(name) == IF name \in DOMAIN ptrs THEN ptrs[name] ELSE "unknown"

When(cond, kind) == IF cond THEN {kind} ELSE {}

\* The patterns a statement matches in the scanner's current state.
StmtPatterns(st) ==
    When(st.op = "system" /\ st.src \in tainted, "command-injection")
    \cup When(st.op = "strcpy" /\ st.src \in tainted, "buffer-overflow")
    \cup When(st.op \in {"strcpy", "gets"}, "dangerous-function")
    \cup When(st.op = "literal" /\ st.dst \in SecretNames, "hardcoded-secret")
    \cup When(st.op = "sprintf" /\ st.fmt = "sql" /\ st.src \in tainted, "sql-injection")
    \cup When(st.op = "md5", "weak-crypto")
    \cup When(st.op = "incr_global", "race-condition")
    \cup When(st.op = "deref" /\ PtrState(st.dst) = "null" /\ st.guard # st.dst,
              "null-pointer-dereference")
    \cup When(st.op = "deref" /\ PtrState(st.dst) = "freed", "use-after-free")

\* The scanner reads the next statement of the routine: reports what it
\* matches, then tracks what it does to buffers and pointers.
Scan_Statement ==
    /\ prog = "semgrep" /\ pc = "scan"
    /\ si <= Len(Routines[fn].body)
    /\ LET st == Routines[fn].body[si]
       IN /\ scanFindings' = scanFindings \cup
                { [routine |-> Routines[fn].name, kind |-> k, line |-> st.line] : k \in StmtPatterns(st) }
          /\ tainted' = IF st.op = "input" \/ (st.op \in {"sprintf", "strcpy"} /\ st.src \in tainted)
                        THEN tainted \cup {st.dst} ELSE tainted
          /\ ptrs' = CASE st.op = "ptr_null" -> (st.dst :> "null") @@ ptrs
                       [] st.op = "new" -> (st.dst :> "live") @@ ptrs
                       [] st.op = "delete" -> (st.src :> "freed") @@ ptrs
                       [] OTHER -> ptrs
    /\ si' = si + 1
    /\ UNCHANGED <<prog, pc, out, exitStatus, seqVars, raceVars, fn>>

\* The closing brace of the routine: an allocation still live there leaks.
\* The scanner then moves to the next routine with a clean state.
Scan_EndOfRoutine ==
    /\ prog = "semgrep" /\ pc = "scan"
    /\ si > Len(Routines[fn].body)
    /\ scanFindings' = scanFindings \cup
            { [routine |-> Routines[fn].name, kind |-> "memory-leak", line |-> 0] :
                p \in { q \in DOMAIN ptrs : ptrs[q] = "live" } }
    /\ tainted' = {}
    /\ ptrs' = <<>>
    /\ si' = 1
    /\ IF fn < Len(Routines)
       THEN fn' = fn + 1 /\ pc' = pc
       ELSE fn' = fn /\ pc' = "scanned"
    /\ UNCHANGED <<prog, out, exitStatus, seqVars, raceVars>>

ScanStep == Scan_Statement \/ Scan_EndOfRoutine

MainStep ==
    \/ Main_PrintInitial
    \/ \E t \in Threads : Main_Spawn(t)
    \/ \E t \in Threads : Main_Join(t)
    \/ Main_PrintFinal
    \/ Main_Return

WorkerStep(t) == T_LoopTest(t) \/ T_Read(t) \/ T_Write(t)

Next ==
    \/ MainStep
    \/ UBStep
    \/ ASStep
    \/ MSStep
    \/ ScanStep
    \/ \E t \in Threads : WorkerStep(t)

Spec == Init /\ [][Next]_vars

\* Every thread that can take a step eventually takes one: the scheduler
\* starves neither main nor a worker.
Fairness ==
    /\ WF_vars(MainStep)
    /\ \A t \in Threads : WF_vars(WorkerStep(t))
    /\ WF_vars(UBStep \/ ASStep \/ MSStep \/ ScanStep)

FairSpec == Spec /\ Fairness

(***************************************************************************)
(* Claims about data-race-demo                                             *)
(***************************************************************************)

TwoN == 2 * NumIterations

\* main has streamed the "Final counter" value (the second value printed).
FinalPrinted == prog = "tsan" /\ Len(out) = 2
Final == out[2]

WorkerSite(t) == <<t, 13>>
\* The static pairs of accesses the observed races are between.
RacePairs == { {<<r.prior.thr, r.prior.line>>, <<r.cur.thr, r.cur.line>>} : r \in races }
WorkerPair == {WorkerSite("t1"), WorkerSite("t2")}

\* C1: for every interleaving of the two increment() threads, the value
\* main prints as "Final counter" after both joins satisfies
\* 0 < value <= 2N.
C1_FinalInRange == FinalPrinted => (0 < Final /\ Final <= TwoN)
C1_Witness == FinalPrinted /\ pc = "done" /\ Final = TwoN

\* C2: whenever an update was lost (a thread stored a value computed from a
\* load that predates a store of the other thread), the value printed as
\* "Final counter" is strictly less than 2N; such a run exists (witness), so
\* equality to 2N is not guaranteed.
C2_LostUpdateBelowTotal == (FinalPrinted /\ stale) => Final < TwoN
C2_Witness == FinalPrinted /\ pc = "done" /\ stale /\ Final < TwoN

\* C3: the only accesses to counter not ordered by thread creation or join
\* are the counter++ of t1 against the counter++ of t2: no observed race
\* ever involves an access of main, and a complete run has observed exactly
\* that one pair.
C3_ExactlyOneRacePair ==
    /\ RacePairs \subseteq {WorkerPair}
    /\ (prog = "tsan" /\ pc = "done") => RacePairs = {WorkerPair}
C3_Witness ==
    /\ prog = "tsan" /\ pc = "done"
    /\ lastR["main"].line = 30
    /\ RacePairs = {WorkerPair}

\* C4: every complete execution, whatever total it prints, contains a pair
\* of accesses to counter by the two workers, at least one of them a write,
\* with no ordering between them.
C4_RaceInEveryRun ==
    (prog = "tsan" /\ pc = "done") =>
        \E r \in races :
            /\ {r.prior.thr, r.cur.thr} = Threads
            /\ "write" \in {r.prior.op, r.cur.op}
C4_Witness ==
    /\ FinalPrinted /\ pc = "done" /\ Final = TwoN /\ ~stale
    /\ \E r \in races : {r.prior.thr, r.cur.thr} = Threads /\ "write" \in {r.prior.op, r.cur.op}

\* C10: with N >= 2 iterations per thread the final value is at least 2 in
\* every interleaving (never 0 or 1), and 2 is reached (witness).
C10_AtLeastTwo == (NumIterations >= 2 /\ FinalPrinted) => Final >= 2
C10_Witness == NumIterations >= 2 /\ FinalPrinted /\ pc = "done" /\ Final = 2

\* Supporting fact: an update is lost exactly when the total falls short.
StaleIffShort == (FinalPrinted) => (stale <=> Final < TwoN)

\* C9: main reports only after both workers are done: when the "Final
\* counter" value has been read and printed both workers have completed all
\* their iterations and been joined, and what was printed is the counter; no
\* step changes counter afterwards; and under fair scheduling the run ends
\* with the final value printed and exit status 0.
C9_ReportAfterJoin ==
    /\ [](FinalPrinted =>
            /\ \A t \in Threads : tpc[t] = "joined" /\ ti[t] >= NumIterations
            /\ Final = counter)
    /\ [][FinalPrinted => counter' = counter]_vars
    /\ <>(prog = "tsan" => (pc = "done" /\ FinalPrinted /\ exitStatus = 0))
C9_Witness ==
    /\ FinalPrinted /\ pc = "done" /\ exitStatus = 0
    /\ \A t \in Threads : tpc[t] = "joined" /\ ti[t] >= NumIterations

(***************************************************************************)
(* Claims about the sequential demos                                       *)
(***************************************************************************)

\* The checker's reports as <<line, kind of operation, finding>>, in order.
Reports == [i \in 1..Len(Findings) |-> <<Findings[i].line, Findings[i].op, Findings[i].finding>>]

\* C5: a run of undefined-behavior-demo executes exactly three undefined
\* operations, in this order: x++ at INT_MAX, 1 << 100, and the read of
\* arr[10]; no division and no store through ptr is executed, and main
\* reaches return 0.
C5_ThreeUndefinedOps ==
    (prog = "ubsan" /\ pc = "done") =>
        /\ Reports = << <<16, "inc", "signed-integer-overflow">>,
                        <<32, "shl", "shift-exponent">>,
                        <<39, "index", "index-out-of-bounds">> >>
        /\ \A i \in 1..Len(trace) : trace[i].op \notin {"div", "deref"}
        /\ exitStatus = 0
C5_Witness ==
    /\ prog = "ubsan" /\ pc = "done" /\ Len(Findings) = 3
    /\ locals["x"].v = IntMin /\ locals["shift"].v = 100 /\ locals["index"].v = 10
    /\ locals["b"].v = 0 /\ locals["ptr"].v = 0

\* C6: under a memory-bounds checker that monitors every access, a run of
\* overflow-demo reports the out-of-bounds write arr[10] = 99 and, later in
\* the same run, the read of *ptr after delete ptr: at least two distinct
\* findings.
C6_OverflowThenUseAfterFree ==
    (prog = "asan" /\ pc = "done") =>
        /\ \E i, j \in 1..Len(Reports) :
              /\ i < j
              /\ Reports[i] = <<15, "write", "stack-buffer-overflow">>
              /\ Reports[j] = <<24, "read", "heap-use-after-free">>
        /\ Cardinality({Reports[i] : i \in 1..Len(Reports)}) >= 2
C6_Witness ==
    /\ prog = "asan" /\ pc = "done"
    /\ 10 \in DOMAIN locals["arr"].cells
    /\ ~heap[locals["ptr"].v].live
    /\ Len(Findings) >= 2

\* The monitored reads of obj[idx] at line.
ReadsAt(line) == { i \in 1..Len(trace) : trace[i].line = line /\ trace[i].op = "read" }

\* C7: every read uninitialized-read-demo narrates as a bug reads a
\* location never written or initialised: x at line 15, arr[0] at line 24
\* and arr2[2] at line 30, each flagged by the value-origin checker, while
\* arr2[0] at line 29 is initialised.
C7_NarratedReadsUninitialised ==
    (prog = "msan" /\ pc = "done") =>
        /\ \A line \in {15, 24, 30} :
              ReadsAt(line) # {} /\ \A i \in ReadsAt(line) : trace[i].finding = "use-of-uninitialized-value"
        /\ \A i \in ReadsAt(29) : trace[i].finding = "none"

\* The routines in which the scanner found the anti-pattern the routine is
\* named for.
RoutinesHit ==
    { Routines[k].name : k \in { n \in 1..Len(Routines) :
        \E f \in scanFindings : f.routine = Routines[n].name /\ f.kind = Routines[n].pattern } }
\* The distinct (routine, anti-pattern) findings.
DistinctFindings == { <<f.routine, f.kind>> : f \in scanFindings }

AllButWeakCrypto == { Routines[k].name : k \in 1..Len(Routines) } \ {"semgrep_weak_crypto"}

\* C8 as stated: every routine except the weak-crypto placeholder holds an
\* active operation of the anti-pattern it is named for, so a scan yields a
\* finding in each of the nine and at least 9 distinct findings.
C8_NineRoutinesHit ==
    (prog = "semgrep" /\ pc = "scanned") =>
        /\ AllButWeakCrypto \subseteq RoutinesHit
        /\ Cardinality(DistinctFindings) >= 9

\* C8 amended: the routines holding an active operation of the anti-pattern
\* they are named for are the seven for command injection, buffer overflow,
\* dangerous function, hardcoded secret, SQL injection, race condition and
\* memory leak; the weak-crypto, null-pointer and use-after-free routines
\* hold none; a scan yields at least 7 distinct findings.
C8_SevenRoutinesHit ==
    (prog = "semgrep" /\ pc = "scanned") =>
        /\ RoutinesHit = AllButWeakCrypto \ {"semgrep_null_pointer", "semgrep_use_after_free"}
        /\ Cardinality(DistinctFindings) >= 7
C8_Witness ==
    /\ prog = "semgrep" /\ pc = "scanned"
    /\ Cardinality(RoutinesHit) = 7
    /\ \E f \in scanFindings : f.routine = "semgrep_memory_leak" /\ f.kind = "memory-leak"

====
